---- MODULE Spec2Model ----
(***************************************************************************)
(* Model of DMXAwareTransformer (mltools/fx/transformer/                   *)
(* dmx_aware_transformer.py): the torch.fx Transformer that walks a traced *)
(* graph and replaces registered modules, functions and the baddbmm method *)
(* by dmx modules registered in the owning module tree.                    *)
(*                                                                         *)
(* Names are sequences of tokens: a word ("resadd"), a separator ("." or   *)
(* "_") or a decimal numeral ("0".."9").  Words hold no digit, no          *)
(* separator and no upper-case letter, so the character tests of the code  *)
(* (isdigit of the last character, rfind("."), the regular expressions of  *)
(* the graph namespace) are tests on the last token or on separators.      *)
(***************************************************************************)
EXTENDS Integers, Sequences, FiniteSets, TLC

\* Largest number of nodes of the input graph before its output node.
MaxNodes == 4

\* ------------------------------------------------------------------------
\* Names
\* ------------------------------------------------------------------------
Numerals == <<"0", "1", "2", "3", "4", "5", "6", "7", "8", "9">>

\* str.isdigit() of a one-numeral token
IsDigitTok(t) == \E i \in 1..Len(Numerals) : Numerals[i] = t

\* int(num_str)
IntOf(t) == (CHOOSE i \in 1..Len(Numerals) : Numerals[i] = t) - 1

\* f"{num}"
StrOf(n) == Numerals[n + 1]

Dot == "."
Us == "_"

\* _illegal_char_regex.sub("_", candidate): of the tokens only "." is
\* outside [0-9a-zA-Z_]
IllegalCharSub(name) == [i \in 1..Len(name) |-> IF name[i] = Dot THEN Us ELSE name[i]]

\* Python keywords and builtins a graph name may not take; none of them is
\* a name over the words of this model.
is_illegal_name(name) == name \in {<<"input">>, <<"type">>, <<"max">>}

\* base_count is a defaultdict(int)
BaseCount(base_count, base) == IF base \in DOMAIN base_count THEN base_count[base] ELSE 0

\* while candidate in used_names or is_illegal_name(candidate): num += 1 ...
RECURSIVE FirstFree(_, _, _, _)
FirstFree(base, num, candidate, used_names) ==
    IF candidate \in used_names \/ is_illegal_name(candidate)
    THEN FirstFree(base, num + 1, base \o <<Us, StrOf(num + 1)>>, used_names)
    ELSE [name |-> candidate, base |-> base, num |-> num]

\* The candidate without illegal characters: "_unnamed" when it is empty,
\* with a leading "_" when it starts with a digit
Sanitized(c1) ==
    IF c1 = <<>> THEN <<"_unnamed">>
    ELSE IF IsDigitTok(c1[1]) THEN <<Us>> \o c1 ELSE c1

\* _name_suffix_regex "(.*)_(\d+)$" matches the candidate
HasSuffix(c) == Len(c) >= 2 /\ IsDigitTok(c[Len(c)]) /\ c[Len(c) - 1] = Us

\* match.group(1), or the candidate when there is no match
SuffixBase(c) == IF HasSuffix(c) THEN SubSeq(c, 1, Len(c) - 2) ELSE c

\* int(match.group(2)); 0 stands for None, which the code treats alike
\* ("if not num")
SuffixNum(c) == IF HasSuffix(c) THEN IntOf(c[Len(c)]) ELSE 0

\* candidate = base if num is None else f"{base}_{num}";
\* if not num: num = base_count[base]; then the loop
Probe(c, base, num, used_names, base_count) ==
    FirstFree(base,
              IF num = 0 THEN BaseCount(base_count, base) ELSE num,
              IF HasSuffix(c) THEN base \o <<Us, StrOf(num)>> ELSE base,
              used_names)

ProbeSanitized(c, used_names, base_count) ==
    Probe(c, SuffixBase(c), SuffixNum(c), used_names, base_count)

\* The name the graph namespace would give to candidate, with the base and
\* the counter it would store: the body shared by _Namespace.create_name
\* and get_name_for_func_nodes.
UniqueName(candidate, used_names, base_count) ==
    ProbeSanitized(Sanitized(IllegalCharSub(candidate)), used_names, base_count)

\* utils.get_name_for_func_nodes: the name create_name would return, without
\* reserving it
get_name_for_func_nodes(candidate, used_names, base_count) ==
    UniqueName(candidate, used_names, base_count).name

\* self._used_names.add(candidate); self._base_count[base] = num
Reserved(ns, u) ==
    [name |-> u.name,
     used_names |-> ns.used_names \cup {u.name},
     base_count |-> [b \in DOMAIN ns.base_count \cup {u.base} |->
                        IF b = u.base THEN u.num ELSE ns.base_count[b]]]

\* _Namespace.create_name(candidate, None) on the namespace
\* ns = [used_names, base_count]; .name is the name returned
create_name(ns, candidate) ==
    Reserved(ns, UniqueName(candidate, ns.used_names, ns.base_count))

EmptyNamespace == [used_names |-> {}, base_count |-> <<>>]

\* str.replace("_", ".")
ReplaceUsByDot(name) == [i \in 1..Len(name) |-> IF name[i] = Us THEN Dot ELSE name[i]]

\* str.rfind("."): 0 when there is none (Python: -1)
RFindDot(name) ==
    IF \E i \in 1..Len(name) : name[i] = Dot
    THEN CHOOSE i \in 1..Len(name) :
            name[i] = Dot /\ \A j \in (i + 1)..Len(name) : name[j] # Dot
    ELSE 0

\* new_name[: rfind(".")] + "_" + new_name[rfind(".") + 1 :]
LastDotToUs(new_name, p) ==
    SubSeq(new_name, 1, p - 1) \o <<Us>> \o SubSeq(new_name, p + 1, Len(new_name))

\* When the name ends in a digit its last "." becomes "_" again.  Every
\* candidate holds ".<suffix>", so RFindDot finds a ".".
Undot(new_name) ==
    IF IsDigitTok(new_name[Len(new_name)])
    THEN LastDotToUs(new_name, RFindDot(new_name))
    ELSE new_name

\* The renaming at the end of create_unique_name_in_scope: every "_" becomes
\* ".", then Undot
Redot(curr_name) == Undot(ReplaceUsByDot(curr_name))

\* DMXAwareTransformer.create_unique_name_in_scope
create_unique_name_in_scope(cand_name, ns) ==
    Redot(get_name_for_func_nodes(cand_name, ns.used_names, ns.base_count))

\* ------------------------------------------------------------------------
\* Values, nodes and the replacement registry
\* ------------------------------------------------------------------------
\* An argument is a host-side literal, a reference to a node (fx.Node, in a
\* graph's args) or a Proxy of a new-graph node (in the interpreter's env).
Lit == [kind |-> "lit", id |-> 0]
NodeRef(k) == [kind |-> "node", id |-> k]
ProxyOf(k) == [kind |-> "proxy", id |-> k]

NoKwargs == [k \in {} |-> Lit]

\* Function targets are named by their qualified Python name.
OpAdd == <<"operator", Dot, "add">>
OpMul == <<"operator", Dot, "mul">>
OpMatmul == <<"operator", Dot, "matmul">>
OpNeg == <<"operator", Dot, "neg">>
TorchMatmul == <<"torch", Dot, "matmul">>
TorchBmm == <<"torch", Dot, "bmm">>
FSoftmax == <<"functional", Dot, "softmax">>

\* str(target) / repr(target) of a function target
node_key_of(target) ==
    CASE target = OpAdd -> "<built-in function add>"
      [] target = OpMul -> "<built-in function mul>"
      [] target = OpMatmul -> "<built-in function matmul>"
      [] target = OpNeg -> "<built-in function neg>"
      [] target = TorchMatmul -> "<built-in method matmul of type object>"
      [] target = TorchBmm -> "<built-in method bmm of type object>"
      [] target = FSoftmax -> "<function softmax>"

\* utils.dmx_aware_functional_mappings: function identity -> dmx class
dmx_aware_functional_mappings ==
    [k \in {"<built-in function add>", "<built-in function mul>",
            "<built-in function matmul>",
            "<built-in method matmul of type object>",
            "<built-in method bmm of type object>",
            "<function softmax>"} |->
        CASE k = "<built-in function add>" -> "dmx.nn.ResAdd"
          [] k = "<built-in function mul>" -> "dmx.nn.Mul"
          [] k = "<function softmax>" -> "dmx.nn.Softmax"
          [] OTHER -> "dmx.nn.ActActMatMul"]

\* utils.dmx_aware_mapping: module type -> dmx class
dmx_aware_mapping ==
    [k \in {"torch.nn.modules.linear.Linear"} |-> "dmx.nn.Linear"]

\* inspect.signature(cls().__init__).parameters.keys()
accepted_kwarg_keys(cls) == IF cls = "dmx.nn.Softmax" THEN {"dim"} ELSE {}

\* A module instance: its class, the keyword arguments it was built with
\* and, for from_raw, the class of the module it was built from.
Instance(cls, initkwargs, raw) == [cls |-> cls, initkwargs |-> initkwargs, raw |-> raw]

LinName == <<"b", Dot, "lin">>
ActName == <<"b", Dot, "act">>

\* The module tree of the traced model: qualified name -> instance
ModuleTree0 ==
    (LinName :> Instance("torch.nn.modules.linear.Linear", NoKwargs, "")) @@
    (ActName :> Instance("torch.nn.modules.activation.Tanhshrink", NoKwargs, ""))

NoModules == [k \in {} |-> Instance("", NoKwargs, "")]

\* Module.add_submodule(target, m)
add_submodule(modules, target, m) == (target :> m) @@ modules

\* Graph._target_to_str: __name__ of a callable, the string itself otherwise
\* (the names of the model are lower-case already, _snake_case keeps them)
target_to_str(op, target) ==
    IF op = "call_function" THEN <<target[Len(target)]>> ELSE target

\* utils.process_args: Proxy -> its node, anything else as it is
process_args(args) ==
    [i \in 1..Len(args) |-> IF args[i].kind = "proxy" THEN NodeRef(args[i].id) ELSE args[i]]

\* utils.process_kwargs
process_kwargs(kwargs) ==
    [k \in DOMAIN kwargs |-> IF kwargs[k].kind = "proxy" THEN NodeRef(kwargs[k].id) ELSE kwargs[k]]

\* ------------------------------------------------------------------------
\* The transformer: st = [new_graph, ns, env, modules, raised, ret]
\* ------------------------------------------------------------------------
\* The node is appended under the name c.name and its Proxy is returned
AppendNode(st, op, target, args, kwargs, c) ==
    [st EXCEPT !.new_graph = Append(st.new_graph,
                   [op |-> op, target |-> target, args |-> args, kwargs |-> kwargs,
                    name |-> c.name]),
               !.ns = [used_names |-> c.used_names, base_count |-> c.base_count],
               !.ret = ProxyOf(Len(st.new_graph) + 1)]

\* Graph.create_node: names the node in the graph namespace and appends it
create_node(st, op, target, args, kwargs) ==
    AppendNode(st, op, target, args, kwargs, create_name(st.ns, target_to_str(op, target)))

\* Tracer.create_proxy: create_arg turns Proxy arguments into nodes
create_proxy(st, op, target, args, kwargs) ==
    create_node(st, op, target, process_args(args), process_kwargs(kwargs))

Raise(st, exc) == [st EXCEPT !.raised = exc]

\* Transformer.call_module (fx): the module is a leaf of the transformer's
\* tracer, so the call is re-emitted as a call_module node
super_call_module(st, target, args, kwargs) ==
    create_proxy(st, "call_module", target, args, kwargs)

\* Transformer.call_function (fx)
super_call_function(st, target, args, kwargs) ==
    create_proxy(st, "call_function", target, args, kwargs)

\* Interpreter.call_method (fx): getattr(self_obj, target)(*args_tail) on a
\* Proxy records a call_method node
super_call_method(st, target, args, kwargs) ==
    create_proxy(st, "call_method", target, args, kwargs)

\* Mutant of ModuleNodeArgs: the node after the argument's node
ModuleNodeArgsNext(args) == <<NodeRef(args[1].id + 1)>>

\* The arguments of the node emitted for a replaced module: (args[0].node,)
ModuleNodeArgs(args) == <<NodeRef(args[1].id)>>

\* Mutant of ModuleRegistered: the replacement is not put in the module tree
ModuleNotRegistered(st, target, node_key) == st

\* The replacement built by from_raw is put in the tree under target
ModuleRegistered(st, target, node_key) ==
    [st EXCEPT !.modules = add_submodule(st.modules, target,
                   Instance(dmx_aware_mapping[node_key], NoKwargs, node_key))]

\* create_node("call_module", target, args=(args[0].node,)): args[0] of an
\* empty tuple raises IndexError, .node of a literal AttributeError
ModuleNode(st1, target, args) ==
    IF Len(args) = 0 THEN Raise(st1, "IndexError")
    ELSE IF args[1].kind # "proxy" THEN Raise(st1, "AttributeError")
    ELSE create_node(st1, "call_module", target, ModuleNodeArgs(args), NoKwargs)

\* DMXAwareTransformer.call_module
call_module(st, target, args, kwargs) ==
    IF st.modules[target].cls \notin DOMAIN dmx_aware_mapping
    THEN super_call_module(st, target, args, kwargs)
    ELSE ModuleNode(ModuleRegistered(st, target, st.modules[target].cls), target, args)

\* self.new_graph._graph_namespace.create_name(candidate, None) when the new
\* name is not the candidate
NamespaceOf(c) == [used_names |-> c.used_names, base_count |-> c.base_count]

\* Mutant of ReserveCandidate: the candidate is not reserved
ReserveNothing(ns, new_name, candidate) == ns

ReserveCandidate(ns, new_name, candidate) ==
    IF new_name # candidate THEN NamespaceOf(create_name(ns, candidate)) ELSE ns

\* Mutant of ScopedName: the root scope is not told apart
ScopedNameDotted(scope, candidate) == scope \o <<Dot>> \o candidate

\* scope + "." + candidate if scope != "" else candidate
ScopedName(scope, candidate) ==
    IF scope # <<>> THEN scope \o <<Dot>> \o candidate ELSE candidate

Baddbmm == <<"baddbmm">>

\* Mutant of Replacement: the call is emitted as well as the module
\* invocation that replaces it
ReplacementAfterCall(st, new_name, candidate, instance, args, kwargs) ==
    create_node(
        create_node([st EXCEPT !.ns = ReserveCandidate(st.ns, new_name, candidate),
                               !.modules = add_submodule(st.modules, new_name, instance)],
                    "call_method", candidate, process_args(args), process_kwargs(kwargs)),
        "call_module", new_name, process_args(args), process_kwargs(kwargs))

\* The candidate is reserved, the module registered under new_name and the
\* call_module node emitted with the arguments of the call
Replacement(st, new_name, candidate, instance, args, kwargs) ==
    create_node([st EXCEPT !.ns = ReserveCandidate(st.ns, new_name, candidate),
                           !.modules = add_submodule(st.modules, new_name, instance)],
                "call_module", new_name, process_args(args), process_kwargs(kwargs))

\* scope, _ = self.node_name_to_scope[curr_name] and what follows it
BaddbmmAt(st, table, curr_name, candidate, args, kwargs) ==
    IF curr_name \notin DOMAIN table THEN Raise(st, "KeyError")
    ELSE Replacement(st, ScopedName(table[curr_name], candidate), candidate,
                     Instance("dmx.nn.BAddBMM", NoKwargs, ""), args, kwargs)

\* DMXAwareTransformer.call_method
call_method(st, table, target, args, kwargs) ==
    IF target = Baddbmm
    THEN BaddbmmAt(st, table,
                   get_name_for_func_nodes(target, st.ns.used_names, st.ns.base_count),
                   target, args, kwargs)
    ELSE super_call_method(st, target, args, kwargs)

ProxyOps == {"call_module", "call_function", "call_method", "placeholder"}

\* Mutant of OperandGuard: only the first operand is tested
OperandGuardFirstOnly(st, args) ==
    /\ args[1].kind = "proxy"
    /\ st.new_graph[args[1].id].op \in ProxyOps

\* Mutant of OperandGuard: the op of the operands' nodes is not tested
OperandGuardAnyProxy(st, args) ==
    /\ args[1].kind = "proxy"
    /\ args[2].kind = "proxy"

\* The operand-provenance test of add and mul: both operands are proxies of
\* nodes whose op is call_module, call_function, call_method or placeholder
OperandGuard(st, args) ==
    /\ args[1].kind = "proxy"
    /\ args[2].kind = "proxy"
    /\ st.new_graph[args[1].id].op \in ProxyOps
    /\ st.new_graph[args[2].id].op \in ProxyOps

\* node_key in "<built-in function mul>": a substring test; of the keys of
\* the registry only the key of mul is a substring of it
IsMulKey(node_key) == node_key = "<built-in function mul>"

IsMatmulKey(node_key) ==
    node_key \in {"<built-in method matmul of type object>",
                  "<built-in method bmm of type object>",
                  "<built-in function matmul>"}

\* The branch of call_function that names the replacement: .kind is
\* "pass" when the guard of add or mul fails
NewName(st, node_key, curr_target, candidate, args) ==
    IF node_key = "<built-in function add>"
    THEN IF OperandGuard(st, args)
         THEN [kind |-> "replace",
               name |-> create_unique_name_in_scope(curr_target \o <<Dot, "resadd">>, st.ns)]
         ELSE [kind |-> "pass", name |-> <<>>]
    ELSE IF IsMulKey(node_key)
    THEN IF OperandGuard(st, args)
         THEN [kind |-> "replace",
               name |-> create_unique_name_in_scope(curr_target \o <<Dot, "mul">>, st.ns)]
         ELSE [kind |-> "pass", name |-> <<>>]
    ELSE IF IsMatmulKey(node_key)
    THEN [kind |-> "replace",
          name |-> create_unique_name_in_scope(curr_target \o <<Dot, "matmul">>, st.ns)]
    ELSE [kind |-> "replace", name |-> ScopedName(curr_target, candidate)]

\* The keyword arguments passed to the constructor of the replacement
InitKwargs(cls, kwargs) ==
    [k \in DOMAIN kwargs \cap accepted_kwarg_keys(cls) |-> kwargs[k]]

\* Mutant of NewKwargs: every keyword argument is left to the call
NewKwargsAll(cls, kwargs) == kwargs

\* The keyword arguments left to the call
NewKwargs(cls, kwargs) ==
    [k \in DOMAIN kwargs \ accepted_kwarg_keys(cls) |-> kwargs[k]]

\* The tail of call_function, from "if new_name != candidate"
Rewritten(st, target, candidate, cls, nn, args, kwargs) ==
    IF nn.kind = "pass"
    THEN super_call_function(st, target, args, kwargs)
    ELSE Replacement(st, nn.name, candidate, Instance(cls, InitKwargs(cls, kwargs), ""),
                     args, NewKwargs(cls, kwargs))

\* Mutant of RegisteredAt: a call-site without an entry in the table is
\* passed through
RegisteredAtOrPassed(st, table, target, node_key, candidate, curr_name, args, kwargs) ==
    IF curr_name \notin DOMAIN table THEN super_call_function(st, target, args, kwargs)
    ELSE Rewritten(st, target, candidate, dmx_aware_functional_mappings[node_key],
                   NewName(st, node_key, table[curr_name], candidate, args),
                   args, kwargs)

\* curr_target, curr_type = self.node_name_to_scope[curr_name] and what
\* follows it
RegisteredAt(st, table, target, node_key, candidate, curr_name, args, kwargs) ==
    IF curr_name \notin DOMAIN table THEN Raise(st, "KeyError")
    ELSE Rewritten(st, target, candidate, dmx_aware_functional_mappings[node_key],
                   NewName(st, node_key, table[curr_name], candidate, args),
                   args, kwargs)

\* DMXAwareTransformer.call_function
call_function(st, table, target, args, kwargs) ==
    IF node_key_of(target) \notin DOMAIN dmx_aware_functional_mappings
    THEN super_call_function(st, target, args, kwargs)
    ELSE RegisteredAt(st, table, target, node_key_of(target),
                      target_to_str("call_function", target),
                      get_name_for_func_nodes(target_to_str("call_function", target),
                                              st.ns.used_names, st.ns.base_count),
                      args, kwargs)

\* Interpreter.fetch_args_kwargs_from_env: a node argument becomes the value
\* env holds for it
FetchArg(env, a) == IF a.kind = "node" THEN env[a.id] ELSE a

FetchArgs(env, args) == [i \in 1..Len(args) |-> FetchArg(env, args[i])]

FetchKwargs(env, kwargs) == [k \in DOMAIN kwargs |-> FetchArg(env, kwargs[k])]

\* getattr(self, n.op)(n.target, args, kwargs); the output node is emitted
\* by Transformer.transform from the result of run
Dispatch(st, table, n, args, kwargs) ==
    CASE n.op = "placeholder" -> create_node(st, "placeholder", n.target, <<>>, NoKwargs)
      [] n.op = "get_attr" -> create_node(st, "get_attr", n.target, <<>>, NoKwargs)
      [] n.op = "call_module" -> call_module(st, n.target, args, kwargs)
      [] n.op = "call_method" -> call_method(st, table, n.target, args, kwargs)
      [] n.op = "call_function" -> call_function(st, table, n.target, args, kwargs)
      [] n.op = "output" -> create_node(st, "output", <<"output">>,
                                        process_args(args), NoKwargs)

\* self.env[node] = self.run_node(node), unless the node raised
Bound(r) == IF r.raised # "" THEN r ELSE [r EXCEPT !.env = Append(r.env, r.ret)]

\* Interpreter.run_node and the env[node] = ... of Interpreter.run
run_node(st, table, n) ==
    Bound(Dispatch(st, table, n, FetchArgs(st.env, n.args), FetchKwargs(st.env, n.kwargs)))

\* The transformer after __init__: an empty new graph with a fresh namespace
NewTransformer(modules) ==
    [new_graph |-> <<>>, ns |-> EmptyNamespace, env |-> <<>>, modules |-> modules,
     raised |-> "", ret |-> Lit]

\* Transformer.transform: run every node in order, stop at the first raise
RECURSIVE RunFrom(_, _, _, _)
RunFrom(st, table, g, i) ==
    IF i > Len(g) \/ st.raised # "" THEN st
    ELSE RunFrom(run_node(st, table, g[i]), table, g, i + 1)

transform(g, table, modules) == RunFrom(NewTransformer(modules), table, g, 1)

\* ------------------------------------------------------------------------
\* Input graphs
\* ------------------------------------------------------------------------
\* A call-site of the input graph before it is placed: its arguments are
\* "P" (the preceding node), "F" (the first node) or "L" (a literal);
\* scoped says whether node_name_to_scope has an entry for the call-site.
Site(op, target, args, kwargs, scoped, scope) ==
    [op |-> op, target |-> target, args |-> args, kwargs |-> kwargs,
     scoped |-> scoped, scope |-> scope]

Root == <<>>
ScB == <<"b">>
ScAB == <<"a", Us, "b">>

Fn(target, args, scope) == Site("call_function", target, args, NoKwargs, TRUE, scope)
FnUnscoped(target, args) == Site("call_function", target, args, NoKwargs, FALSE, Root)
FnKw(target, args, kwargs, scope) == Site("call_function", target, args, kwargs, TRUE, scope)
Meth(target, args, scope) == Site("call_method", target, args, NoKwargs, TRUE, scope)
Mod(target, args, kwargs) == Site("call_module", target, args, kwargs, FALSE, Root)

\* Call-sites that differ in their scope: scopes with an underscore, the
\* root scope and call-sites without an entry in node_name_to_scope
NamingSites ==
    {Fn(OpAdd, <<"P", "F">>, sc) : sc \in {ScB, ScAB, Root}}
    \cup {FnUnscoped(OpAdd, <<"P", "F">>)}
    \cup {Fn(OpMul, <<"P", "F">>, sc) : sc \in {ScB, ScAB}}
    \cup {Fn(TorchMatmul, <<"P", "F">>, sc) : sc \in {ScB, ScAB}}
    \cup {Fn(OpMatmul, <<"P", "L">>, ScB), Fn(TorchBmm, <<"L", "P">>, ScB)}
    \cup {FnKw(FSoftmax, <<"P">>, "dim" :> Lit, sc) : sc \in {ScB, Root}}
    \cup {Fn(OpNeg, <<"P">>, ScB)}
    \cup {Meth(Baddbmm, <<"P", "F", "L">>, sc) : sc \in {ScB, Root}}
    \cup {Meth(<<"view">>, <<"P", "L">>, ScB)}
    \cup {Mod(LinName, <<"P">>, NoKwargs), Mod(ActName, <<"P">>, NoKwargs)}

\* Call-sites that differ in their arguments
DataflowSites ==
    {Fn(OpAdd, a, ScB) : a \in {<<"P", "F">>, <<"P", "L">>, <<"L", "P">>}}
    \cup {FnUnscoped(OpAdd, <<"P", "L">>), FnUnscoped(OpMul, <<"L", "P">>)}
    \cup {Fn(OpMul, a, ScB) : a \in {<<"P", "F">>, <<"P", "L">>}}
    \cup {Fn(TorchMatmul, a, ScB) : a \in {<<"P", "L">>, <<"L", "P">>}}
    \cup {FnKw(FSoftmax, <<"P">>, kw, ScB) :
            kw \in {"dim" :> Lit, ("dim" :> Lit) @@ ("dtype" :> NodeRef(1))}}
    \cup {Fn(OpNeg, <<"P">>, ScB)}
    \cup {Site("call_method", Baddbmm, <<"P", "F", "L">>, "beta" :> Lit, TRUE, ScB)}
    \cup {Meth(<<"view">>, <<"P", "L">>, ScB)}
    \cup {Mod(LinName, a, NoKwargs) : a \in {<<>>, <<"P">>, <<"L">>, <<"P", "F">>}}
    \cup {Mod(LinName, <<"P">>, "scale" :> NodeRef(1))}
    \cup {Mod(ActName, <<"P">>, NoKwargs), Mod(ActName, <<"P", "F">>, "scale" :> NodeRef(1))}

Unscoped(op, target, args, kwargs) == Site(op, target, args, kwargs, FALSE, Root)

\* Call-sites that differ in whether node_name_to_scope has an entry for
\* them; the method add (x.add(1)) takes its node name from the series of
\* the function add
AttributionSites ==
    {Fn(OpAdd, <<"P", "F">>, ScB), FnUnscoped(OpAdd, <<"P", "F">>)}
    \cup {Fn(TorchMatmul, <<"P", "F">>, ScB), FnUnscoped(TorchMatmul, <<"P", "L">>)}
    \cup {Unscoped("call_function", FSoftmax, <<"P">>, "dim" :> Lit)}
    \cup {FnUnscoped(OpNeg, <<"P">>)}
    \cup {Meth(Baddbmm, <<"P", "F", "L">>, ScB)}
    \cup {Unscoped("call_method", Baddbmm, <<"P", "F", "L">>, NoKwargs)}
    \cup {Unscoped("call_method", <<"add">>, <<"P", "L">>, NoKwargs)}
    \cup {Mod(LinName, <<"P">>, NoKwargs)}

\* Scopes of indexed containers: a path that ends in a number, a path that is
\* a number
ScH0 == <<"h", Dot, "0">>
Sc0 == <<"0">>

IndexedSites ==
    {Fn(OpAdd, <<"P", "F">>, sc) : sc \in {ScH0, Sc0}}
    \cup {Fn(OpMul, <<"P", "F">>, ScH0)}
    \cup {Fn(TorchMatmul, <<"P", "F">>, sc) : sc \in {ScH0, Sc0}}
    \cup {Fn(OpAdd, <<"P", "L">>, ScH0)}
    \cup {Meth(Baddbmm, a, ScH0) : a \in {<<"P", "F", "L">>, <<"P", "L", "L">>}}
    \cup {Mod(ActName, <<"P">>, NoKwargs)}

Alphabets == {"naming", "dataflow", "attribution", "indexed"}

SitesOf(a) ==
    CASE a = "naming" -> NamingSites
      [] a = "dataflow" -> DataflowSites
      [] a = "attribution" -> AttributionSites
      [] a = "indexed" -> IndexedSites

\* The argument a pattern stands for when n nodes precede the call-site
PlaceArg(a, n) ==
    IF a = "P" THEN NodeRef(n) ELSE IF a = "F" THEN NodeRef(1) ELSE Lit

PlaceArgs(args, n) == [i \in 1..Len(args) |-> PlaceArg(args[i], n)]

\* ------------------------------------------------------------------------
\* State
\* ------------------------------------------------------------------------
VARIABLES
    alphabet,            \* the set of call-sites the input graph is drawn from
    graph,               \* the nodes of the input graph read so far
    graph_ns,            \* the namespace of the input graph
    node_name_to_scope,  \* name of an input node -> scope of its call-site
    tr,                  \* the DMXAwareTransformer and its new graph
    tr2,                 \* the transformer of a second transformation
    pc                   \* "run", "done" (transform returned), "again"

vars == <<alphabet, graph, graph_ns, node_name_to_scope, tr, tr2, pc>>

Init ==
    /\ alphabet \in Alphabets
    /\ graph = <<>>
    /\ graph_ns = EmptyNamespace
    /\ node_name_to_scope = [k \in {} |-> Root]
    /\ tr = NewTransformer(ModuleTree0)
    /\ tr2 = NewTransformer(NoModules)
    /\ pc = "run"

\* The scope of a call-site is recorded under the name of its node
Recorded(table, name, scoped, scope) ==
    IF scoped THEN (name :> scope) @@ table ELSE table

\* The node n joins the input graph and the interpreter runs it
ReadNode(n, table) ==
    /\ graph' = Append(graph, n)
    /\ node_name_to_scope' = table
    /\ tr' = run_node(tr, table, n)

ReadNamed(op, target, args, kwargs, scoped, scope, c) ==
    /\ graph_ns' = NamespaceOf(c)
    /\ ReadNode([op |-> op, target |-> target, args |-> args, kwargs |-> kwargs,
                 name |-> c.name],
                Recorded(node_name_to_scope, c.name, scoped, scope))
    /\ UNCHANGED <<alphabet, tr2, pc>>

\* The tracer's graph names the node; the scope of a call-site is recorded
\* under that name; the interpreter of the transformer runs the node.
Read(op, target, args, kwargs, scoped, scope) ==
    ReadNamed(op, target, args, kwargs, scoped, scope,
              create_name(graph_ns, target_to_str(op, target)))

Running == pc = "run" /\ tr.raised = ""

ReadSite(s) ==
    Read(s.op, s.target, PlaceArgs(s.args, Len(graph)), s.kwargs, s.scoped, s.scope)

Placeholder ==
    /\ Running /\ graph = <<>>
    /\ Read("placeholder", <<"x">>, <<>>, NoKwargs, FALSE, Root)

GetAttr ==
    /\ Running /\ Len(graph) \in 1..(MaxNodes - 1)
    /\ Read("get_attr", <<"w">>, <<>>, NoKwargs, FALSE, Root)

CallModule ==
    /\ Running /\ Len(graph) \in 1..(MaxNodes - 1)
    /\ \E s \in SitesOf(alphabet) : s.op = "call_module" /\ ReadSite(s)

CallMethod ==
    /\ Running /\ Len(graph) \in 1..(MaxNodes - 1)
    /\ \E s \in SitesOf(alphabet) : s.op = "call_method" /\ ReadSite(s)

CallFunction ==
    /\ Running /\ Len(graph) \in 1..(MaxNodes - 1)
    /\ \E s \in SitesOf(alphabet) : s.op = "call_function" /\ ReadSite(s)

\* The output node ends Interpreter.run; transform emits the new output
Output ==
    /\ Running /\ Len(graph) >= 1
    /\ ReadNode([op |-> "output", target |-> <<"output">>,
                 args |-> <<NodeRef(Len(graph))>>, kwargs |-> NoKwargs,
                 name |-> <<"output">>],
                node_name_to_scope)
    /\ pc' = "done"
    /\ UNCHANGED <<alphabet, graph_ns, tr2>>

\* The same graph is transformed once more, by a new transformer, on the
\* module tree the first transformation left
Retransform ==
    /\ pc = "done"
    /\ tr2' = transform(graph, node_name_to_scope, tr.modules)
    /\ pc' = "again"
    /\ UNCHANGED <<alphabet, graph, graph_ns, node_name_to_scope, tr>>

Next ==
    \/ Placeholder
    \/ GetAttr
    \/ CallModule
    \/ CallMethod
    \/ CallFunction
    \/ Output
    \/ Retransform

Spec == Init /\ [][Next]_vars

\* ------------------------------------------------------------------------
\* Properties
\* ------------------------------------------------------------------------
\* Input node i has been run and has its image at position i of the new graph
Emitted(i) == i \in 1..Len(tr.new_graph)

\* The new-graph image of an argument of the input graph
ImgIn(env, a) == IF a.kind = "node" THEN NodeRef(env[a.id].id) ELSE a

ImgArgsIn(env, args) == [k \in 1..Len(args) |-> ImgIn(env, args[k])]

ImgKwargsIn(env, kwargs, keys) == [k \in keys |-> ImgIn(env, kwargs[k])]

ImgArgs(args) == ImgArgsIn(tr.env, args)

ImgKwargs(kwargs, keys) == ImgKwargsIn(tr.env, kwargs, keys)

\* A function or method call-site that was replaced by a module invocation
CallReplaced(i) ==
    /\ Emitted(i)
    /\ graph[i].op \in {"call_function", "call_method"}
    /\ tr.new_graph[i].op = "call_module"

\* An invocation of a module of a registered type: the first invocation of
\* the module (later ones find the replacement in the tree)
ModuleReplaced(i) ==
    /\ Emitted(i)
    /\ graph[i].op = "call_module"
    /\ ModuleTree0[graph[i].target].cls \in DOMAIN dmx_aware_mapping
    /\ \A j \in 1..(i - 1) : ~(graph[j].op = "call_module" /\ graph[j].target = graph[i].target)

Replaced(i) == CallReplaced(i) \/ ModuleReplaced(i)

IsRegisteredFn(n, targets) ==
    /\ n.op = "call_function"
    /\ n.target \in targets
    /\ node_key_of(n.target) \in DOMAIN dmx_aware_functional_mappings

\* Operand k of input node i is the value of a module-invocation,
\* function-call, method-call or placeholder node
GraphValue(i, k) ==
    /\ k <= Len(graph[i].args)
    /\ graph[i].args[k].kind = "node"
    /\ graph[graph[i].args[k].id].op \in ProxyOps

\* C1: any two replacement nodes emitted in one transformation are
\* registered under distinct qualified names.
C1_NameUniqueness ==
    \A i, j \in 1..Len(tr.new_graph) :
        (i # j /\ Replaced(i) /\ Replaced(j))
            => tr.new_graph[i].target # tr.new_graph[j].target

\* C2: a registered add or mul call-site is replaced if and only if both of
\* its first two operands are values of module-invocation, function-call,
\* method-call or placeholder nodes.
C2_GuardCorrectness ==
    \A i \in 1..Len(tr.new_graph) :
        IsRegisteredFn(graph[i], {OpAdd, OpMul})
            => (tr.new_graph[i].op = "call_module" <=> (GraphValue(i, 1) /\ GraphValue(i, 2)))

\* An add with a literal second operand was passed through, an add of two
\* call-site results was replaced, and an add of a get_attr value was passed
\* through.
C2_Witness ==
    /\ \E i \in 1..Len(tr.new_graph) :
          /\ graph[i].target = OpAdd /\ graph[i].args[2] = Lit
          /\ tr.new_graph[i].op = "call_function"
    /\ \E i \in 1..Len(tr.new_graph) :
          /\ graph[i].target = OpAdd /\ GraphValue(i, 1) /\ GraphValue(i, 2)
          /\ tr.new_graph[i].op = "call_module"

\* C3: the node emitted for a replaced call-site carries every positional
\* argument of the original node, in order and remapped, and every keyword
\* argument that the constructor of the replacement did not consume.
C3_ReplacementKeepsArguments ==
    \A i \in 1..Len(tr.new_graph) :
        Replaced(i) =>
            /\ tr.new_graph[i].args = ImgArgs(graph[i].args)
            /\ tr.new_graph[i].kwargs =
                  ImgKwargs(graph[i].kwargs,
                      IF graph[i].op = "call_function"
                      THEN DOMAIN graph[i].kwargs \ accepted_kwarg_keys(
                               dmx_aware_functional_mappings[node_key_of(graph[i].target)])
                      ELSE DOMAIN graph[i].kwargs)

\* The add or mul call-site i fails the operand-provenance guard
GuardFails(i) ==
    /\ IsRegisteredFn(graph[i], {OpAdd, OpMul})
    /\ ~(GraphValue(i, 1) /\ GraphValue(i, 2))

\* Input node i was re-emitted as a call of the same function with its
\* arguments remapped
PassedThrough(i) ==
    /\ Emitted(i)
    /\ tr.new_graph[i].op = "call_function"
    /\ tr.new_graph[i].target = graph[i].target
    /\ tr.new_graph[i].args = ImgArgs(graph[i].args)
    /\ tr.new_graph[i].kwargs = ImgKwargs(graph[i].kwargs, DOMAIN graph[i].kwargs)

\* C4 as stated: whatever node_name_to_scope holds, an add or mul call-site
\* whose guard fails is passed through, nothing is raised and the module
\* tree is left as it was.
C4_GuardFailureNeverRaises ==
    [][(graph' # graph /\ (GuardFails(Len(graph)))')
        => /\ tr'.raised = ""
           /\ (PassedThrough(Len(graph)))'
           /\ tr'.modules = tr.modules]_vars

\* C4 amended: the same, for a call-site that has an entry in
\* node_name_to_scope.
C4_GuardFailurePassesThrough ==
    [][(/\ graph' # graph
        /\ (GuardFails(Len(graph)))'
        /\ graph'[Len(graph')].name \in DOMAIN node_name_to_scope')
        => /\ tr'.raised = ""
           /\ (PassedThrough(Len(graph)))'
           /\ tr'.modules = tr.modules]_vars

\* A mul with a literal operand and an entry in node_name_to_scope was
\* passed through after a replacement had put a module in the tree.
C4_Witness ==
    \E i \in 1..Len(tr.new_graph) :
        /\ graph[i].target = OpMul /\ GuardFails(i) /\ PassedThrough(i)
        /\ graph[i].name \in DOMAIN node_name_to_scope
        /\ \E j \in 1..(i - 1) : CallReplaced(j)

\* The scope node_name_to_scope records for input node i
ScopeOf(i) == node_name_to_scope[graph[i].name]

AddReplaced(i) ==
    CallReplaced(i) /\ graph[i].target = OpAdd /\ graph[i].name \in DOMAIN node_name_to_scope

\* The number of replaced adds at the scope of i up to i
AddRank(i) == Cardinality({j \in 1..i : AddReplaced(j) /\ ScopeOf(j) = ScopeOf(i)})

\* C5: the first guard-passing add at scope S is bound to S.resadd and the
\* k-th to S.resadd_(k-1), each under a name of its own in the module tree.
C5_CollisionAvoidanceSequence ==
    \A i \in 1..Len(tr.new_graph) :
        AddReplaced(i) =>
            /\ tr.new_graph[i].target =
                  IF AddRank(i) = 1 THEN ScopeOf(i) \o <<Dot, "resadd">>
                  ELSE ScopeOf(i) \o <<Dot, "resadd", Us, StrOf(AddRank(i) - 1)>>
            /\ tr.new_graph[i].target \in DOMAIN tr.modules

MatmulTargets == {TorchMatmul, TorchBmm, OpMatmul}

MatmulAt(i) ==
    /\ IsRegisteredFn(graph[i], MatmulTargets)
    /\ graph[i].name \in DOMAIN node_name_to_scope

\* C6: a registered matmul, bmm or matmul-operator call-site is replaced
\* whatever its operands are, and the first one at scope S is bound to
\* S.matmul.
C6_MatmulAlwaysReplaced ==
    \A i \in 1..Len(tr.new_graph) :
        MatmulAt(i) =>
            /\ tr.new_graph[i].op = "call_module"
            /\ (\A j \in 1..(i - 1) : ~(MatmulAt(j) /\ ScopeOf(j) = ScopeOf(i)))
                  => tr.new_graph[i].target = ScopeOf(i) \o <<Dot, "matmul">>

C8_NodeCount == tr.raised = "" => Len(tr.new_graph) = Len(graph)

\* A transformation of a graph of placeholder, call and output nodes has
\* returned after a replacement that reserved the candidate name.
C8_Witness ==
    /\ pc = "done"
    /\ \A i \in 1..Len(graph) : graph[i].op # "get_attr"
    /\ \E i \in 1..Len(graph) :
          /\ CallReplaced(i)
          /\ target_to_str(graph[i].op, graph[i].target) \in tr.ns.used_names
          /\ tr.new_graph[i].name # target_to_str(graph[i].op, graph[i].target)
    /\ \E i \in 1..Len(graph) : ModuleReplaced(i)

NodeIds(n) ==
    {n.args[k].id : k \in {k \in 1..Len(n.args) : n.args[k].kind # "lit"}}
    \cup {n.kwargs[k].id : k \in {k \in DOMAIN n.kwargs : n.kwargs[k].kind # "lit"}}

\* C9: every argument of a node of the new graph names an earlier node of
\* the new graph, and the image of an argument of an input node precedes
\* the image of that node.
C9_TopologicalPreservation ==
    /\ \A i \in 1..Len(tr.new_graph) : \A k \in NodeIds(tr.new_graph[i]) : k \in 1..(i - 1)
    /\ \A u \in 1..Len(tr.env) : \A v \in NodeIds(graph[u]) : tr.env[v].id < tr.env[u].id

\* A replaced module and a replaced function each take the value of an
\* earlier replaced call-site.
C9_Witness ==
    \E i, j \in 1..Len(tr.new_graph) :
        /\ ModuleReplaced(i) /\ CallReplaced(j)
        /\ \E u \in NodeIds(tr.new_graph[i]) : Replaced(u)
        /\ \E u \in NodeIds(tr.new_graph[j]) : Replaced(u)

\* C10: a second transformation of the same graph, on the module tree the
\* first one left, returns the same new graph.
C10_Determinism ==
    pc = "again" => (tr2.raised = "" /\ tr2.new_graph = tr.new_graph)

\* The rewriter would replace input node i: a baddbmm method call, or a call
\* of a registered function that, for add and mul, passes the operand guard
WouldReplace(i) ==
    \/ graph[i].op = "call_method" /\ graph[i].target = Baddbmm
    \/ /\ IsRegisteredFn(graph[i], {OpAdd, OpMul, OpMatmul, TorchMatmul, TorchBmm, FSoftmax})
       /\ graph[i].target \in {OpAdd, OpMul} => (GraphValue(i, 1) /\ GraphValue(i, 2))

Unattributed(i) == graph[i].name \notin DOMAIN node_name_to_scope

\* C11: when the rewriter reaches a function or method call-site it would
\* replace and node_name_to_scope has no entry for the call-site's name, the
\* step raises, no node is emitted for the call-site, no module is
\* registered, and the transformation never returns a graph.
C11_AttributionFailureFatal ==
    [][/\ (graph' # graph /\ (WouldReplace(Len(graph)))' /\ (Unattributed(Len(graph)))')
           => /\ tr'.raised = "KeyError"
              /\ tr'.new_graph = tr.new_graph
              /\ tr'.modules = tr.modules
       /\ tr'.raised # "" => pc' = "run"]_vars

\* The second add of a graph, with operands that pass the guard and without
\* an entry in node_name_to_scope, raised after the first add was replaced.
C11_Witness ==
    /\ tr.raised = "KeyError"
    /\ Len(graph) = Len(tr.new_graph) + 1
    /\ graph[Len(graph)].target = OpAdd
    /\ WouldReplace(Len(graph)) /\ Unattributed(Len(graph))
    /\ \E j \in 1..Len(tr.new_graph) : AddReplaced(j)

\* The local suffix of the name of a replaced add, mul or matmul call-site
LocalSuffix(target) ==
    CASE target = OpAdd -> "resadd"
      [] target = OpMul -> "mul"
      [] target \in MatmulTargets -> "matmul"

\* C12: the name allocated to a replaced add, mul or matmul call-site at
\* scope S is S.suffix, or S.suffix_<n> with a number n at the very end;
\* the scope path is never altered.
C12_NamingConvention ==
    \A i \in 1..Len(tr.new_graph) :
        (CallReplaced(i) /\ graph[i].target \in {OpAdd, OpMul} \cup MatmulTargets)
            => LET plain == ScopeOf(i) \o <<Dot, LocalSuffix(graph[i].target)>>
               IN \/ tr.new_graph[i].target = plain
                  \/ \E d \in 1..Len(Numerals) :
                        tr.new_graph[i].target = plain \o <<Us, Numerals[d]>>

\* C13: when a function call is replaced, each keyword argument of the call
\* goes to exactly one place: to the constructor of the replacement when its
\* name is a parameter of the constructor, to the keyword arguments of the
\* emitted node otherwise; none is lost, added or passed to both.
C13_KwargPartition ==
    [][(/\ graph' # graph
        /\ graph'[Len(graph')].op = "call_function"
        /\ tr'.raised = ""
        /\ tr'.new_graph[Len(graph')].op = "call_module")
        => LET n == graph'[Len(graph')]
               m == tr'.new_graph[Len(graph')]
               init == tr'.modules[m.target].initkwargs
               accepted == accepted_kwarg_keys(
                               dmx_aware_functional_mappings[node_key_of(n.target)])
           IN /\ DOMAIN init \cup DOMAIN m.kwargs = DOMAIN n.kwargs
              /\ \A k \in DOMAIN n.kwargs :
                    /\ (k \in DOMAIN init) # (k \in DOMAIN m.kwargs)
                    /\ (k \in DOMAIN init) <=> (k \in accepted)
                    /\ k \in DOMAIN init => init[k] = FetchArg(tr.env, n.kwargs[k])
                    /\ k \in DOMAIN m.kwargs
                          => m.kwargs[k] = ImgIn(tr'.env, n.kwargs[k])]_vars

\* A softmax call with dim and dtype was replaced: dim went to the
\* constructor of the replacement, dtype to the emitted node.
C13_Witness ==
    \E i \in 1..Len(tr.new_graph) :
        /\ CallReplaced(i) /\ graph[i].target = FSoftmax
        /\ DOMAIN graph[i].kwargs = {"dim", "dtype"}
        /\ DOMAIN tr.new_graph[i].kwargs = {"dtype"}
        /\ DOMAIN tr.modules[tr.new_graph[i].target].initkwargs = {"dim"}

\* C14: a baddbmm method call that has an entry in node_name_to_scope is
\* replaced, whatever its operands are, by a call_module node with the
\* arguments of the call, bound to a BAddBMM module registered under
\* scope.baddbmm, or baddbmm at the root scope; any other method call is
\* re-emitted as the same method call and the module tree is left as it was.
C14_FusedMethodCalls ==
    [][(graph' # graph /\ graph'[Len(graph')].op = "call_method")
        => LET i == Len(graph')
               n == graph'[i]
               m == tr'.new_graph[i]
               scope == node_name_to_scope'[n.name]
           IN IF n.target = Baddbmm
              THEN n.name \in DOMAIN node_name_to_scope'
                      => /\ tr'.raised = ""
                         /\ Len(tr'.new_graph) = i
                         /\ m.op = "call_module"
                         /\ m.target = IF scope = Root THEN <<"baddbmm">>
                                       ELSE scope \o <<Dot, "baddbmm">>
                         /\ m.target \in DOMAIN tr'.modules
                         /\ tr'.modules[m.target].cls = "dmx.nn.BAddBMM"
                         /\ m.args = ImgArgsIn(tr'.env, n.args)
                         /\ m.kwargs = ImgKwargsIn(tr'.env, n.kwargs, DOMAIN n.kwargs)
              ELSE /\ tr'.raised = ""
                   /\ Len(tr'.new_graph) = i
                   /\ m.op = "call_method"
                   /\ m.target = n.target
                   /\ m.args = ImgArgsIn(tr'.env, n.args)
                   /\ m.kwargs = ImgKwargsIn(tr'.env, n.kwargs, DOMAIN n.kwargs)
                   /\ tr'.modules = tr.modules]_vars

\* A baddbmm call at the root scope was bound to baddbmm, one at scope b to
\* b.baddbmm, and a view call was passed through.
C14_Witness ==
    /\ \E i \in 1..Len(tr.new_graph) :
          /\ graph[i].target = Baddbmm /\ ScopeOf(i) = Root
          /\ tr.new_graph[i].op = "call_module"
          /\ tr.new_graph[i].target = <<"baddbmm">>
    /\ \E i \in 1..Len(tr.new_graph) :
          /\ graph[i].target = Baddbmm /\ ScopeOf(i) = ScB
          /\ tr.new_graph[i].op = "call_module"
          /\ tr.new_graph[i].target = <<"b", Dot, "baddbmm">>
    /\ \E i \in 1..Len(tr.new_graph) :
          /\ graph[i].target = <<"view">>
          /\ tr.new_graph[i].op = "call_method"

\* The rewriter looks up node_name_to_scope for the node n: a call of a
\* registered function or a baddbmm method call
LooksUp(n) ==
    \/ n.op = "call_function" /\ node_key_of(n.target) \in DOMAIN dmx_aware_functional_mappings
    \/ n.op = "call_method" /\ n.target = Baddbmm

\* The key of that lookup, computed on the namespace of the new graph
LookupKey(st, n) ==
    get_name_for_func_nodes(target_to_str(n.op, n.target), st.ns.used_names, st.ns.base_count)

\* The k-th name of the series f, f_1, f_2, ...
SeriesName(f, k) == IF k = 1 THEN f ELSE f \o <<Us, StrOf(k - 1)>>

\* The number of call-sites named f, function and method calls alike, among
\* the nodes of g
CallsNamed(g, f) ==
    Cardinality({j \in 1..Len(g) :
                    /\ g[j].op \in {"call_function", "call_method"}
                    /\ target_to_str(g[j].op, g[j].target) = f})

====
